---- MODULE Spec2Model ----
(***************************************************************************)
(* A model of the CloudyGUI cluster-scheduler simulation: the resource    *)
(* pool (ResourceManager), the dependency graph, the pending priority     *)
(* queue and the two per-tick entry points of Scheduler                   *)
(* (schedule_next_batch, update_job_status).                              *)
(*                                                                         *)
(* Quantities are integers (Instance.__init__ draws them with randint).   *)
(* Simulated time is counted in minutes.                                  *)
(***************************************************************************)
EXTENDS Integers, Sequences, FiniteSets, TLC

VARIABLES
    total_resources,      \* ResourceManager.total_resources
    available_resources,  \* ResourceManager.available_resources
    all_jobs,             \* Scheduler.all_jobs: the Job objects, in order of acceptance
    job_queue,            \* Scheduler.job_queue: the heap array of (priority, job)
    running_jobs,         \* Scheduler.running_jobs: dict job_id -> (job, resources)
    completed_jobs,       \* Scheduler.completed_jobs
    interrupted_jobs,     \* Scheduler.interrupted_jobs
    graph,                \* Scheduler.dependency_graph: [nodes, edges]
    status_history,       \* Scheduler.status_history
    current_time,         \* the driver's simulated clock
    add_calls,            \* number of add_job calls made so far
    phase,                \* the call the driver's loop makes next
    ret,                  \* what the last Scheduler call raised and returned
    pool_call,            \* the last direct ResourceManager call, with its pre-state
    prev_call             \* the ResourceManager call before it

vars == <<total_resources, available_resources, all_jobs, job_queue, running_jobs,
          completed_jobs, interrupted_jobs, graph, status_history, current_time,
          add_calls, phase, ret, pool_call, prev_call>>

schedVars == <<all_jobs, job_queue, running_jobs, completed_jobs, interrupted_jobs,
               graph, status_history, current_time, add_calls>>

-----------------------------------------------------------------------------
(* Bounds of the model *)

PoolUnits == 5      \* capacity of the pool in every dimension it has
MaxRequest == 2     \* largest amount of one dimension in a direct pool call
MaxJobs == 2        \* number of add_job calls
MaxTicks == 3       \* number of times the driver advances the clock

None == -1          \* Python's None for a time field

-----------------------------------------------------------------------------
(* Resource vectors: Python dicts keyed by resource name.  Dims is the key *)
(* order of the dicts built by get_total_resources.                        *)

Dims == <<"cpu", "memory", "gpu", "disk">>
DimSet == {Dims[i] : i \in 1..Len(Dims)}

\* The pools the program builds: the workload generator's has four
\* dimensions, the driver's has no disk.
PoolDimSets == {DimSet, DimSet \ {"disk"}}

\* can_allocate: all(available[r] >= required[r] for r in required).  The
\* generator expression is consumed in key order and stops at the first
\* false; a key the pool lacks raises KeyError when it is reached.
\* A check that passes over the dimensions the pool lacks
CanAllocateKnown(avail, req, i) ==
    IF \A n \in i..Len(Dims) :
          Dims[n] \in (DOMAIN req \cap DOMAIN avail) => avail[Dims[n]] >= req[Dims[n]]
    THEN "True" ELSE "False"

RECURSIVE CanAllocateFrom(_, _, _)
CanAllocateFrom(avail, req, i) ==
    IF i > Len(Dims) THEN "True"
    ELSE IF Dims[i] \notin DOMAIN req THEN CanAllocateFrom(avail, req, i + 1)
    ELSE IF Dims[i] \notin DOMAIN avail THEN "KeyError"
    ELSE IF avail[Dims[i]] >= req[Dims[i]] THEN CanAllocateFrom(avail, req, i + 1)
    ELSE "False"

\* A check that looks at the cpu only
CanAllocateCpuOnly(avail, req) ==
    IF "cpu" \notin DOMAIN req THEN "True"
    ELSE IF "cpu" \notin DOMAIN avail THEN "KeyError"
    ELSE IF avail["cpu"] >= req["cpu"] THEN "True" ELSE "False"

can_allocate(avail, req) == CanAllocateFrom(avail, req, 1)

\* An allocation that takes nothing from the pool
SubtractNothing(avail, req) == avail

Subtract(avail, req) ==
    [d \in DOMAIN avail |-> IF d \in DOMAIN req THEN avail[d] - req[d] ELSE avail[d]]

\* allocate: [ret, avail]; ret is "True", "False" or "KeyError" (raised by
\* the check, before anything is subtracted).
allocate(avail, req) ==
    IF can_allocate(avail, req) = "True"
    THEN [ret |-> "True", avail |-> Subtract(avail, req)]
    ELSE [ret |-> can_allocate(avail, req), avail |-> avail]

\* release: for r in resources: available[r] += resources[r].  A key the
\* pool lacks raises KeyError after the keys before it were added.
RECURSIVE ReleaseFrom(_, _, _)
ReleaseFrom(avail, res, i) ==
    IF i > Len(Dims) THEN [ret |-> "None", avail |-> avail]
    ELSE IF Dims[i] \notin DOMAIN res THEN ReleaseFrom(avail, res, i + 1)
    ELSE IF Dims[i] \notin DOMAIN avail THEN [ret |-> "KeyError", avail |-> avail]
    ELSE ReleaseFrom([avail EXCEPT ![Dims[i]] = @ + res[Dims[i]]], res, i + 1)

\* A release that gives no cpu back
ReleaseSkipCpu(avail, res) ==
    ReleaseFrom(avail, [d \in DOMAIN res \ {"cpu"} |-> res[d]], 1)

release(avail, res) == ReleaseFrom(avail, res, 1)

-----------------------------------------------------------------------------
(* Jobs and instances (core/models.py).  The scheduler walks job.tasks and *)
(* task.instances in order; instances is that walk.                       *)

TerminalStatuses == {"terminated", "failed", "interrupted"}

RSmall == [cpu |-> 2, memory |-> 1, gpu |-> 0, disk |-> 1]
RBig == [cpu |-> 3, memory |-> 1, gpu |-> 0, disk |-> 1]

\* The jobs the driver submits: a priority (generate_workload draws it from
\* 1..5), the requirement of each instance, the status generate_workload
\* gives the job and its instances, and the error_rate its instances drew
\* (random.random(), in percent).
JobKinds ==
    {[priority |-> 1, shape |-> <<RBig>>, status |-> "waiting", error_rate |-> 50],
     [priority |-> 5, shape |-> <<RBig>>, status |-> "waiting", error_rate |-> 50],
     [priority |-> 3, shape |-> <<RSmall, RSmall>>, status |-> "waiting",
      error_rate |-> 97],
     [priority |-> 5, shape |-> <<RSmall>>, status |-> "terminated", error_rate |-> 50]}

\* Instance.__init__, with the status generate_workload then assigns.
NewInstance(required, status, error_rate) ==
    [required |-> required, status |-> status, is_spot |-> FALSE,
     start_time |-> None, end_time |-> None, preemption_time |-> None,
     last_checkpoint |-> None, error_rate |-> error_rate]

\* Job.__init__, Task.__init__ and generate_workload: every instance gets the
\* job's status; the status of the job's tasks starts as waiting.
NewJob(job_id, priority, dependencies, shape, status, error_rate) ==
    [job_id |-> job_id, priority |-> priority, dependencies |-> dependencies,
     status |-> status, task_status |-> "waiting",
     instances |-> [k \in 1..Len(shape) |-> NewInstance(shape[k], status, error_rate)]]

ZeroVector == [d \in DimSet |-> 0]

\* Job.get_total_resources / Task.get_total_resources
RECURSIVE SumRequired(_, _)
SumRequired(instances, k) ==
    IF k = 0 THEN ZeroVector
    ELSE [d \in DimSet |-> SumRequired(instances, k - 1)[d] + instances[k].required[d]]

get_total_resources(job) == SumRequired(job.instances, Len(job.instances))

-----------------------------------------------------------------------------
(* The dependency graph (networkx.DiGraph): nodes and directed edges.      *)

EmptyGraph == [nodes |-> {}, edges |-> {}]

add_node(g, n) == [g EXCEPT !.nodes = @ \cup {n}]
add_edge(g, u, v) == [nodes |-> g.nodes \cup {u, v}, edges |-> g.edges \cup {<<u, v>>}]

\* nx.is_directed_acyclic_graph: strip nodes without a predecessor until
\* none is left (acyclic) or none can be stripped (a cycle, or a self-loop).
RECURSIVE Strips(_, _)
Strips(nodes, edges) ==
    LET sources == {n \in nodes : ~ \E e \in edges : e[2] = n /\ e[1] \in nodes}
    IN  IF nodes = {} THEN TRUE
        ELSE IF sources = {} THEN FALSE
        ELSE Strips(nodes \ sources, edges)

is_directed_acyclic_graph(g) == Strips(g.nodes, g.edges)

-----------------------------------------------------------------------------
(* The pending queue: queue.PriorityQueue, a binary heap (heapq) of        *)
(* (priority, job) tuples.  A job is held by its position in all_jobs.     *)

\* Tuple comparison: the priorities decide; on equal priorities the jobs are
\* compared, Job.__eq__ by id and Job.__lt__ by priority, which is false.
ItemLess(a, b) ==
    \/ a.priority < b.priority

RECURSIVE SiftDown(_, _, _, _)
SiftDown(heap, startpos, pos, newitem) ==
    LET parentpos == ((pos - 2) \div 2) + 1
    IN  IF pos > startpos /\ ItemLess(newitem, heap[parentpos])
        THEN SiftDown([heap EXCEPT ![pos] = heap[parentpos]], startpos, parentpos, newitem)
        ELSE [heap EXCEPT ![pos] = newitem]

RECURSIVE SiftUpLoop(_, _, _)
SiftUpLoop(heap, pos, newitem) ==
    LET childpos == 2 * pos
        rightpos == childpos + 1
        smaller == IF rightpos <= Len(heap) /\ ~ ItemLess(heap[childpos], heap[rightpos])
                   THEN rightpos ELSE childpos
    IN  IF childpos <= Len(heap)
        THEN SiftUpLoop([heap EXCEPT ![pos] = heap[smaller]], smaller, newitem)
        ELSE SiftDown([heap EXCEPT ![pos] = newitem], 1, pos, newitem)

\* job_queue.put((priority, job))
QueuePut(heap, item) == SiftDown(Append(heap, item), 1, Len(heap) + 1, item)

\* job_queue.get(): [item, heap]
QueueGet(heap) ==
    LET lastelt == heap[Len(heap)]
        rest == SubSeq(heap, 1, Len(heap) - 1)
    IN  IF rest = <<>> THEN [item |-> lastelt, heap |-> rest]
        ELSE [item |-> heap[1], heap |-> SiftUpLoop(rest, 1, lastelt)]

QueueItem(all, h) == [priority |-> all[h].priority, job |-> h]

-----------------------------------------------------------------------------
(* Scheduler.add_job *)

CanStartAlways(completed, job) == TRUE

\* _can_start: all(dep in completed_jobs for dep in job.dependencies)
_can_start(completed, job) ==
    \A i \in 1..Len(job.dependencies) : job.dependencies[i] \in completed

KnownIds(all) == {all[h].job_id : h \in 1..Len(all)}

\* A loop that takes every dependency as known
AddDependenciesUnchecked(g, job, i, all) ==
    [raised |-> FALSE,
     graph |-> [nodes |-> g.nodes \cup {job.job_id}
                            \cup {job.dependencies[n] : n \in i..Len(job.dependencies)},
                edges |-> g.edges \cup {<<job.dependencies[n], job.job_id>> :
                                           n \in i..Len(job.dependencies)}]]

\* The loop over job.dependencies: [raised, graph].  A dependency that no
\* job of all_jobs carries raises DependencyError where the loop stands.
RECURSIVE AddDependencies(_, _, _, _)
AddDependencies(g, job, i, all) ==
    IF i > Len(job.dependencies) THEN [raised |-> FALSE, graph |-> g]
    ELSE IF job.dependencies[i] \notin KnownIds(all) THEN [raised |-> TRUE, graph |-> g]
    ELSE AddDependencies(add_edge(g, job.dependencies[i], job.job_id), job, i + 1, all)

\* add_job: [raised, graph, all_jobs, job_queue]
add_job(g, all, queue, completed, job) ==
    LET withDeps == AddDependencies(add_node(g, job.job_id), job, 1, all)
        appended == Append(all, job)
    IN  IF withDeps.raised \/ ~ is_directed_acyclic_graph(withDeps.graph)
        THEN [raised |-> "DependencyError", graph |-> withDeps.graph,
              all_jobs |-> all, job_queue |-> queue]
        ELSE [raised |-> "None", graph |-> withDeps.graph, all_jobs |-> appended,
              job_queue |-> IF _can_start(completed, job)
                            THEN QueuePut(queue, QueueItem(appended, Len(appended)))
                            ELSE queue]

-----------------------------------------------------------------------------
(* Scheduler.schedule_next_batch and its helpers.                          *)
(*                                                                         *)
(* The random draws and the wall-clock readings of one call are its        *)
(* oracle orc:                                                             *)
(*   orc.start[<<h, k>>]  for an instance that is started: .spot, whether  *)
(*                        random.random() < spot_instance_probability, and *)
(*                        .short, the draw of _calculate_instance_duration *)
(*   orc.wall[h]          the part of a running instance of job h that     *)
(*                        datetime.now() makes elapsed, in percent         *)
(*   orc.usage[h]         the sum of the current_usage values of job h     *)

GracePeriod == 2        \* preemption_grace_period = timedelta(minutes=2)
MinDuration == 15       \* _calculate_instance_duration: max(15, ...)
PriorityMargin == 2     \* _should_preempt: running.priority > new.priority + 2

WallFractions == {10, 100}
UsageLevels == {0, 4}
StartChoices == {c \in [spot : BOOLEAN, short : BOOLEAN] : c.short => c.spot}
DefaultStart == [spot |-> FALSE, short |-> FALSE]

StartOf(orc, h, k) ==
    IF <<h, k>> \in DOMAIN orc.start THEN orc.start[<<h, k>>] ELSE DefaultStart
WallOf(orc, h) == IF h \in DOMAIN orc.wall THEN orc.wall[h] ELSE 0
UsageOf(orc, h) == IF h \in DOMAIN orc.usage THEN orc.usage[h] ELSE 0

LogEntry(job_id, h, k, old, new, time) ==
    [job_id |-> job_id, instance_id |-> <<h, k>>, old_status |-> old,
     new_status |-> new, time |-> time]

\* _check_zone_quotas: required.get(r, 0) <= 0.8 * total[r] for the three
\* dimensions of zone_quotas.
_check_zone_quotas(total, required) ==
    \A d \in {"cpu", "memory", "gpu"} :
        10 * (IF d \in DOMAIN required THEN required[d] ELSE 0) <= 8 * total[d]

_is_spot_instance(job) == \E k \in 1..Len(job.instances) : job.instances[k].is_spot

\* _get_job_progress, times 100 * number of instances
ProgressSum(job, wall) ==
    100 * Cardinality({k \in 1..Len(job.instances) :
                          job.instances[k].status \in {"terminated", "failed"}})
    + wall * Cardinality({k \in 1..Len(job.instances) :
                          /\ job.instances[k].status = "running"
                          /\ job.instances[k].end_time # None
                          /\ job.instances[k].start_time # None})

\* progress > 0.8
AlmostDone(job, wall) == ProgressSum(job, wall) > 80 * Len(job.instances)

_get_job_progress(job, wall) ==
    IF Len(job.instances) > 0 THEN ProgressSum(job, wall) \div Len(job.instances) ELSE 0

\* A rule that lets any less urgent job be taken
ShouldPreemptAlways(running_job, priority, wall) == TRUE

_should_preempt(running_job, priority, wall) ==
    IF running_job.priority > priority
    THEN IF AlmostDone(running_job, wall) THEN FALSE
         ELSE IF _is_spot_instance(running_job) THEN TRUE
         ELSE running_job.priority > priority + PriorityMargin
    ELSE FALSE

\* _calculate_preemption_cost, times 30:
\* progress * 50 + resource_cost * 0.3 + 20 / (priority + 1) + (1 or 2) * 10
_calculate_preemption_cost(job, wall, usage) ==
    15 * _get_job_progress(job, wall) + 9 * usage + (600 \div (job.priority + 1))
    + (IF _is_spot_instance(job) THEN 300 ELSE 600)

\* A loop that gives an instance that is preempting already a new deadline
PreemptInstancesAgain(job, log, job_id, h, k, now) ==
    [job |-> [job EXCEPT !.instances =
                 [n \in 1..Len(job.instances) |->
                     IF n >= k /\ job.instances[n].status \in {"running", "preempting"}
                     THEN [job.instances[n] EXCEPT !.status = "preempting",
                                                   !.preemption_time = now + GracePeriod]
                     ELSE job.instances[n]]],
     log |-> log]

\* _checkpoint_instance and the body of the loop of _schedule_preemption
RECURSIVE PreemptInstances(_, _, _, _, _, _)
PreemptInstances(job, log, job_id, h, k, now) ==
    IF k > Len(job.instances) THEN [job |-> job, log |-> log]
    ELSE IF job.instances[k].status = "running"
    THEN PreemptInstances(
            [job EXCEPT !.instances[k] =
                [@ EXCEPT !.status = "preempting",
                          !.preemption_time = now + GracePeriod,
                          !.last_checkpoint = IF job.instances[k].is_spot THEN now ELSE @]],
            Append(log, LogEntry(job_id, h, k, "running", "preempting", now)),
            job_id, h, k + 1, now)
    ELSE PreemptInstances(job, log, job_id, h, k + 1, now)

\* _schedule_preemption: [all, log]
_schedule_preemption(all, log, entry, now) ==
    LET r == PreemptInstances(all[entry.job], log, entry.job_id, entry.job, 1, now)
    IN  [all |-> [all EXCEPT ![entry.job] = r.job], log |-> r.log]

\* A sort that leaves the order of the running map
KeepOrder(entries, cost, n) == entries

\* list.sort(key=cost): stable, ascending
RECURSIVE SortByCost(_, _, _)
SortByCost(entries, cost, n) ==
    IF n = 0 THEN <<>>
    ELSE LET sorted == SortByCost(entries, cost, n - 1)
             e == entries[n]
             before == {i \in 1..Len(sorted) : cost[sorted[i].job] <= cost[e.job]}
             at == Cardinality(before)
         IN  SubSeq(sorted, 1, at) \o <<e>> \o SubSeq(sorted, at + 1, Len(sorted))

\* The eviction loop: stops once every dimension of needed is covered.
RECURSIVE PreemptLoop(_, _, _, _, _, _)
PreemptLoop(all, log, sorted, i, needed, now) ==
    IF i > Len(sorted) \/ (\A d \in DOMAIN needed : needed[d] <= 0)
    THEN [all |-> all, log |-> log]
    ELSE LET r == _schedule_preemption(all, log, sorted[i], now)
         IN  PreemptLoop(r.all, r.log, sorted, i + 1,
                         [d \in DOMAIN needed |->
                             IF d \in DOMAIN sorted[i].resources
                             THEN needed[d] - sorted[i].resources[d] ELSE needed[d]],
                         now)

RECURSIVE SumResources(_, _)
SumResources(entries, n) ==
    IF n = 0 THEN ZeroVector
    ELSE [d \in DimSet |-> SumResources(entries, n - 1)[d] + entries[n].resources[d]]

\* The candidates, in the order of the running map
PreemptableJobs(all, running, priority, orc) ==
    SelectSeq(running, LAMBDA e :
        /\ all[e.job].priority > priority
        /\ \/ _is_spot_instance(all[e.job])
           \/ _should_preempt(all[e.job], priority, WallOf(orc, e.job)))

\* A preemption that does not ask whether the candidates cover the request
TryPreemptUncovered(all, log, running, priority, total, orc, now) ==
    LET preemptable == PreemptableJobs(all, running, priority, orc)
    IN  PreemptLoop(all, log, preemptable, 1, total, now)

\* Lines 130-167, for a request that can_allocate refused: [all, log]
TryPreempt(all, log, running, priority, total, orc, now) ==
    LET preemptable == PreemptableJobs(all, running, priority, orc)
        freed == SumResources(preemptable, Len(preemptable))
        can_preempt == \A d \in DOMAIN total : freed[d] >= total[d]
        cost == [h \in 1..Len(all) |->
                    _calculate_preemption_cost(all[h], WallOf(orc, h), UsageOf(orc, h))]
    IN  IF can_preempt
        THEN PreemptLoop(all, log, SortByCost(preemptable, cost, Len(preemptable)),
                         1, total, now)
        ELSE [all |-> all, log |-> log]

\* _calculate_instance_duration for an instance whose current usage is below
\* the minimum: 15, or for a spot instance int(15 * uniform(0.5, 1.0))
Duration(is_spot, short) ==
    IF is_spot /\ short THEN MinDuration \div 2 ELSE MinDuration

\* Lines 174-195: start the waiting and interrupted instances: [job, log]
RECURSIVE StartInstances(_, _, _, _, _, _)
StartInstances(job, log, h, k, now, orc) ==
    IF k > Len(job.instances) THEN [job |-> job, log |-> log]
    ELSE IF job.instances[k].status \in {"waiting", "interrupted"}
    THEN LET spot == job.instances[k].is_spot \/ StartOf(orc, h, k).spot
         IN  StartInstances(
                [job EXCEPT !.instances[k] =
                    [@ EXCEPT !.status = "running",
                              !.start_time = now,
                              !.is_spot = spot,
                              !.end_time = now + Duration(spot, StartOf(orc, h, k).short)]],
                Append(log, LogEntry(job.job_id, h, k, job.instances[k].status,
                                     "running", now)),
                h, k + 1, now, orc)
    ELSE StartInstances(job, log, h, k + 1, now, orc)

\* running_jobs[job_id] = (job, resources): a known key keeps its place
SetRunning(running, job_id, h, resources) ==
    LET entry == [job_id |-> job_id, job |-> h, resources |-> resources]
    IN  IF \E i \in 1..Len(running) : running[i].job_id = job_id
        THEN [i \in 1..Len(running) |->
                 IF running[i].job_id = job_id THEN entry ELSE running[i]]
        ELSE Append(running, entry)

RECURSIVE PutAll(_, _, _)
PutAll(heap, items, i) ==
    IF i > Len(items) THEN heap ELSE PutAll(QueuePut(heap, items[i]), items, i + 1)

\* A handler that forgets the job whose processing raised
CaughtDropped(st, item) == st

\* except Exception inside the loop: the job joins the skipped jobs
Caught(st, item) == [st EXCEPT !.skipped = Append(@, item)]

\* An eviction that hands the victims' allocations back to the pool at once
PreemptedReleasing(st, evicted) ==
    LET victims == SelectSeq(st.running, LAMBDA e : evicted.all[e.job] # st.all[e.job])
    IN  [st EXCEPT !.all = evicted.all,
                   !.log = evicted.log,
                   !.avail = [d \in DOMAIN st.avail |->
                                 st.avail[d] + SumResources(victims, Len(victims))[d]]]

\* Lines 130-167 on the state of the loop: the victims' instances and the
\* log change, the pool does not
Preempted(st, evicted) == [st EXCEPT !.all = evicted.all, !.log = evicted.log]

\* Lines 171-198 on the state of the loop: job h is allocated its request,
\* its instances are started and it is recorded as running
Admit(st, h, required, now, orc) ==
    LET started == StartInstances(st.all[h], st.log, h, 1, now, orc)
    IN  [st EXCEPT !.avail = allocate(st.avail, required).avail,
                   !.all = [st.all EXCEPT ![h] = started.job],
                   !.log = started.log,
                   !.scheduled = Append(@, h),
                   !.running = SetRunning(@, st.all[h].job_id, h, required)]

\* The while loop of schedule_next_batch over the state
\* st = [queue, avail, all, running, log, scheduled, skipped, raised]; an
\* error inside the loop body is caught there and the job is skipped.  The
\* pool is asked twice: before the evictions (line 130) and after (line 170).
RECURSIVE BatchLoop(_, _, _, _)
BatchLoop(st, total_res, now, orc) ==
    IF st.queue = <<>> THEN st
    ELSE
    LET got == QueueGet(st.queue)
        item == got.item
        h == item.job
        job == st.all[h]
        required == get_total_resources(job)
        st1 == [st EXCEPT !.queue = got.heap]
        skip == [st1 EXCEPT !.skipped = Append(@, item)]
        fits == can_allocate(st.avail, required)
        evicted == TryPreempt(st.all, st.log, st.running, item.priority, required, orc, now)
    IN  IF ~ _check_zone_quotas(total_res, required) THEN BatchLoop(skip, total_res, now, orc)
        ELSE IF fits = "KeyError" THEN BatchLoop(Caught(st1, item), total_res, now, orc)
        ELSE IF fits = "True"
        THEN BatchLoop(Admit(st1, h, required, now, orc), total_res, now, orc)
        ELSE IF can_allocate(Preempted(st1, evicted).avail, required) = "True"
        THEN BatchLoop(Admit(Preempted(st1, evicted), h, required, now, orc),
                       total_res, now, orc)
        ELSE BatchLoop(Preempted(skip, evicted), total_res, now, orc)

\* schedule_next_batch: the loop, then the skipped jobs go back on the queue
schedule_next_batch(queue, avail, all, running, log, total_res, now, orc) ==
    LET st == BatchLoop([queue |-> queue, avail |-> avail, all |-> all,
                         running |-> running, log |-> log,
                         scheduled |-> <<>>, skipped |-> <<>>, raised |-> "None"],
                        total_res, now, orc)
    IN  [st EXCEPT !.queue = PutAll(st.queue, st.skipped, 1)]

-----------------------------------------------------------------------------
(* Scheduler.update_job_status.  Its oracle orc.bad[<<h, k>>] is the draw  *)
(* for a running instance: failed instead of terminated when its end_time *)
(* has come, preempted when it is a spot instance.                         *)

StatusKeys == {"terminated", "running", "interrupted", "waiting", "failed", "preempting"}

BadOf(orc, h, k) == IF <<h, k>> \in DOMAIN orc.bad THEN orc.bad[<<h, k>>] ELSE FALSE

\* Instance.update_usage, as far as the scheduler reads its effects: a
\* running instance without times gets them (an hour when its task type is
\* not one of TASK_TYPES).
DefaultHour == 60

update_usage(inst, now) ==
    IF inst.status = "running"
    THEN LET start == IF inst.start_time = None THEN now ELSE inst.start_time
         IN  [inst EXCEPT !.start_time = start,
                          !.end_time = IF @ = None THEN start + DefaultHour ELSE @]
    ELSE inst

\* A handler that leaves the instance whose update raised as it is
NotDegraded(moved) == moved

\* except Exception inside the loop over the instances: the instance fails
Degraded(moved) == [moved EXCEPT !.inst.status = "failed"]

\* An update that ends a running instance whatever its end_time
UpdateInstanceAtOnce(instance, log, job_id, h, k, now, bad) ==
    IF instance.status = "running"
    THEN [inst |-> [instance EXCEPT !.status = "terminated"], log |-> log]
    ELSE [inst |-> instance, log |-> log]

\* Lines 350-384 for one instance: [inst, log].  A status that is no key of
\* job_status raises KeyError, which the handler turns into failed.
UpdateInstance(instance, log, job_id, h, k, now, bad) ==
    LET inst == update_usage(instance, now)
        logged(new) == Append(log, LogEntry(job_id, h, k, inst.status, new, now))
        moved ==
            IF inst.status = "running"
            THEN IF inst.end_time <= now
                 THEN LET new == IF bad THEN "failed" ELSE "terminated"
                      IN  [inst |-> [inst EXCEPT !.status = new], log |-> logged(new)]
                 ELSE IF inst.is_spot /\ bad
                 THEN [inst |-> [inst EXCEPT !.status = "preempting",
                                             !.preemption_time = now + GracePeriod],
                       log |-> logged("preempting")]
                 ELSE [inst |-> inst, log |-> log]
            ELSE IF inst.status = "preempting" /\ now >= inst.preemption_time
            THEN [inst |-> [inst EXCEPT !.status = "interrupted"],
                  log |-> logged("interrupted")]
            ELSE [inst |-> inst, log |-> log]
    IN  IF moved.inst.status \in StatusKeys THEN moved ELSE Degraded(moved)

RECURSIVE UpdateInstances(_, _, _, _, _, _, _)
UpdateInstances(job, log, job_id, h, k, now, orc) ==
    IF k > Len(job.instances) THEN [job |-> job, log |-> log]
    ELSE LET r == UpdateInstance(job.instances[k], log, job_id, h, k, now, BadOf(orc, h, k))
         IN  UpdateInstances([job EXCEPT !.instances[k] = r.inst], r.log,
                             job_id, h, k + 1, now, orc)

Count(job, status) ==
    Cardinality({k \in 1..Len(job.instances) : job.instances[k].status = status})

\* Lines 386-399: the job's status from the counts of its instances
JobStatus(job) ==
    IF Count(job, "failed") > 0 THEN "failed"
    ELSE IF Count(job, "interrupted") > 0 THEN "interrupted"
    ELSE IF Count(job, "preempting") > 0 THEN "preempting"
    ELSE IF Count(job, "running") > 0 THEN "running"
    ELSE IF Count(job, "terminated") = Len(job.instances) THEN "terminated"
    ELSE job.status

\* A deletion that leaves the entry in the running map
KeepKey(running, job_id) == running

RemoveKey(running, job_id) == SelectSeq(running, LAMBDA e : e.job_id # job_id)

\* The loop over list(running_jobs.items()) on the state
\* st = [all, running, avail, completed, interrupted, queue, log, returned, raised]
RECURSIVE UpdateLoop(_, _, _, _, _)
UpdateLoop(st, items, i, now, orc) ==
    IF i > Len(items) \/ st.raised # "None" THEN st
    ELSE
    LET e == items[i]
        h == e.job
        r == UpdateInstances(st.all[h], st.log, e.job_id, h, 1, now, orc)
        status == JobStatus(r.job)
        job == [r.job EXCEPT !.status = status]
        all == [st.all EXCEPT ![h] = job]
        st1 == [st EXCEPT
                  !.all = all,
                  !.log = r.log,
                  !.interrupted = IF status = "interrupted" THEN @ \cup {e.job_id} ELSE @,
                  !.completed = IF status = "terminated" THEN @ \cup {e.job_id} ELSE @,
                  !.returned = IF status = "terminated" THEN Append(@, e.job_id) ELSE @]
        rel == release(st.avail, e.resources)
    IN  IF status \notin TerminalStatuses THEN UpdateLoop(st1, items, i + 1, now, orc)
        ELSE IF rel.ret = "KeyError"
        THEN [st1 EXCEPT !.avail = rel.avail, !.raised = "KeyError"]
        ELSE UpdateLoop(
                [st1 EXCEPT !.avail = rel.avail,
                            !.running = RemoveKey(@, e.job_id),
                            !.queue = IF status = "interrupted"
                                      THEN QueuePut(@, QueueItem(all, h)) ELSE @],
                items, i + 1, now, orc)

update_job_status(all, running, avail, completed, interrupted, queue, log, now, orc) ==
    UpdateLoop([all |-> all, running |-> running, avail |-> avail,
                completed |-> completed, interrupted |-> interrupted,
                queue |-> queue, log |-> log, returned |-> <<>>, raised |-> "None"],
               running, 1, now, orc)

\* verify_dependencies: every predecessor of a node is a node, and the graph
\* is acyclic; the exception it raises, or "None"
verify_dependencies(g) ==
    IF \E e \in g.edges : e[2] \in g.nodes /\ e[1] \notin g.nodes
    THEN "DependencyError"
    ELSE IF ~ is_directed_acyclic_graph(g) THEN "DependencyError"
    ELSE "None"

-----------------------------------------------------------------------------
(* Scheduler.get_status_summary: the counts of the jobs by status.  A job  *)
(* status that is no key of status_counts raises KeyError, and the handler *)
(* returns zero for every status.                                          *)

SummaryKeys == {"waiting", "running", "terminated", "interrupted", "failed"}

get_status_summary(all) ==
    IF \A h \in 1..Len(all) : all[h].status \in SummaryKeys
    THEN [status \in SummaryKeys |->
             Cardinality({h \in 1..Len(all) : all[h].status = status})]
    ELSE [status \in SummaryKeys |-> 0]

-----------------------------------------------------------------------------
(* verify_workload_execution (utils/verifier.py): the transitions it       *)
(* allows, and its count of the log entries that are none of them.  An     *)
(* old_status that is no key of the table raises KeyError.                 *)

valid_transitions ==
    [old \in {"pending", "running", "terminated", "interrupted"} |->
        CASE old = "pending" -> {"running", "interrupted"}
          [] old = "running" -> {"terminated", "interrupted"}
          [] OTHER -> {}]

RECURSIVE invalid_transitions(_, _)
invalid_transitions(log, n) ==
    IF n = 0 THEN 0
    ELSE LET before == invalid_transitions(log, n - 1)
         IN  IF before = "KeyError" \/ log[n].old_status \notin DOMAIN valid_transitions
             THEN "KeyError"
             ELSE IF log[n].new_status \notin valid_transitions[log[n].old_status]
             THEN before + 1
             ELSE before

-----------------------------------------------------------------------------
(* The scheduler as a state machine.  Jobs are added at any time; the      *)
(* driver's loop calls schedule_next_batch, then update_job_status, then   *)
(* moves the clock forward, and starts over.                               *)

MaxDeps == 1         \* longest dependency list of a submitted job
TickStep == 5       \* run_workload: current_time += timedelta(minutes=5)

Handles(all) == 1..Len(all)
QueuedHandles(queue) == {queue[i].job : i \in 1..Len(queue)}
RunningHandles(running) == {running[i].job : i \in 1..Len(running)}
RunningIds(running) == {running[i].job_id : i \in 1..Len(running)}

NoCall == [raised |-> "None", returned |-> <<>>]
NoPoolCall == [op |-> "none"]

Init ==
    /\ total_resources \in {[d \in D |-> PoolUnits] : D \in PoolDimSets}
    /\ available_resources = total_resources
    /\ all_jobs = <<>>
    /\ job_queue = <<>>
    /\ running_jobs = <<>>
    /\ completed_jobs = {}
    /\ interrupted_jobs = {}
    /\ graph = EmptyGraph
    /\ status_history = <<>>
    /\ current_time = 0
    /\ add_calls = 0
    /\ phase = "schedule"
    /\ ret = NoCall
    /\ pool_call = NoPoolCall
    /\ prev_call = NoPoolCall

\* Job ids are handed out in order; a dependency may name the next unused id.
UsedIds == graph.nodes
IdLimit(n) == IF n < MaxJobs THEN n + 1 ELSE MaxJobs
DepLists(ids) ==
    {<<>>} \cup {<<a>> : a \in ids}
    \cup {<<e[1], e[2]>> : e \in {f \in ids \X ids : f[1] < f[2]}}

\* The jobs the driver may submit next
Submittable ==
    {NewJob(job_id, kind.priority, deps, kind.shape, kind.status, kind.error_rate) :
        job_id \in 1..IdLimit(Cardinality(UsedIds)), kind \in JobKinds,
        deps \in {l \in DepLists(1..MaxJobs) : Len(l) <= MaxDeps}}

AddJobOf(job) ==
    LET r == add_job(graph, all_jobs, job_queue, completed_jobs, job)
    IN  /\ graph' = r.graph
        /\ all_jobs' = r.all_jobs
        /\ job_queue' = r.job_queue
        /\ ret' = [raised |-> r.raised, returned |-> <<>>]
        /\ add_calls' = add_calls + 1

AddJob ==
    /\ add_calls < MaxJobs
    /\ \E job \in Submittable :
          /\ \A i \in 1..Len(job.dependencies) :
                job.dependencies[i] <= IdLimit(Cardinality(UsedIds \cup {job.job_id}))
          /\ AddJobOf(job)
    /\ UNCHANGED <<total_resources, available_resources, running_jobs, completed_jobs,
                   interrupted_jobs, status_history, current_time, phase, pool_call,
                   prev_call>>

Tick ==
    /\ phase = "tick"
    /\ phase' = "schedule"
    /\ current_time + TickStep <= MaxTicks * TickStep
    /\ current_time' = current_time + TickStep
    /\ UNCHANGED <<total_resources, available_resources, all_jobs, job_queue,
                   running_jobs, completed_jobs, interrupted_jobs, graph,
                   status_history, add_calls, ret, pool_call, prev_call>>

NoOracle == [start |-> <<>>, wall |-> <<>>, usage |-> <<>>, bad |-> <<>>]

\* The instances the call starts, and the running jobs it may weigh as victims
StartedBy(queue, avail, all, running, log, total_res, now) ==
    LET st == schedule_next_batch(queue, avail, all, running, log, total_res, now, NoOracle)
    IN  {hk \in Handles(all) \X (1..3) :
            /\ \E i \in 1..Len(st.scheduled) : st.scheduled[i] = hk[1]
            /\ hk[2] <= Len(all[hk[1]].instances)
            /\ all[hk[1]].instances[hk[2]].status \in {"waiting", "interrupted"}}

WeighedBy(queue, all, running) ==
    {h \in RunningHandles(running) :
        \E i \in 1..Len(queue) : all[h].priority > queue[i].priority}

\* The draws and clock readings one call can meet
ScheduleOracles ==
    [start : [StartedBy(job_queue, available_resources, all_jobs, running_jobs,
                        status_history, total_resources, current_time)
              -> StartChoices],
     wall : [WeighedBy(job_queue, all_jobs, running_jobs) -> WallFractions],
     usage : [WeighedBy(job_queue, all_jobs, running_jobs) -> UsageLevels],
     bad : {<<>>}]

ScheduleNextBatchOf(orc) ==
    LET st == schedule_next_batch(job_queue, available_resources, all_jobs,
                  running_jobs, status_history, total_resources, current_time, orc)
    IN  /\ job_queue' = st.queue
        /\ available_resources' = st.avail
        /\ all_jobs' = st.all
        /\ running_jobs' = st.running
        /\ status_history' = st.log
        /\ ret' = [raised |-> st.raised, returned |-> st.scheduled]

ScheduleNextBatch ==
    /\ phase = "schedule"
    /\ phase' = "update"
    /\ \E orc \in ScheduleOracles : ScheduleNextBatchOf(orc)
    /\ UNCHANGED <<total_resources, completed_jobs, interrupted_jobs, graph,
                   current_time, add_calls, pool_call, prev_call>>

\* The running instances whose draw decides something in this call
DrawnBy(all, running, now) ==
    {hk \in RunningHandles(running) \X (1..3) :
        /\ hk[2] <= Len(all[hk[1]].instances)
        /\ all[hk[1]].instances[hk[2]].status = "running"
        /\ \/ all[hk[1]].instances[hk[2]].end_time <= now
           \/ all[hk[1]].instances[hk[2]].is_spot}

UpdateJobStatus ==
    /\ phase = "update"
    /\ phase' = "tick"
    /\ \E bad \in [DrawnBy(all_jobs, running_jobs, current_time) -> BOOLEAN] :
          LET st == update_job_status(all_jobs, running_jobs, available_resources,
                        completed_jobs, interrupted_jobs, job_queue, status_history,
                        current_time,
                        [start |-> <<>>, wall |-> <<>>, usage |-> <<>>, bad |-> bad])
          IN  /\ all_jobs' = st.all
              /\ running_jobs' = st.running
              /\ available_resources' = st.avail
              /\ completed_jobs' = st.completed
              /\ interrupted_jobs' = st.interrupted
              /\ job_queue' = st.queue
              /\ status_history' = st.log
              /\ ret' = [raised |-> st.raised, returned |-> st.returned]
    /\ UNCHANGED <<total_resources, graph, current_time, add_calls, pool_call, prev_call>>

Next == AddJob \/ Tick \/ ScheduleNextBatch \/ UpdateJobStatus

Spec == Init /\ [][Next]_vars

-----------------------------------------------------------------------------
(* The driver's loop on its own pool of four dimensions: the jobs are      *)
(* waiting jobs without dependencies, with ids 1, 2, ... in the order of   *)
(* their submission.  The loop never stops calling: each of its three      *)
(* steps is taken when it is its turn, for as long as the clock of the     *)
(* model runs.                                                             *)

LiveKinds == {kind \in JobKinds : kind.status = "waiting" /\ kind.priority <= 3}

InitLive == Init /\ DOMAIN total_resources = DimSet

AddLiveJob ==
    /\ Len(all_jobs) < MaxJobs
    /\ \E kind \in LiveKinds :
          AddJobOf(NewJob(Len(all_jobs) + 1, kind.priority, <<>>, kind.shape,
                          kind.status, kind.error_rate))
    /\ UNCHANGED <<total_resources, available_resources, running_jobs, completed_jobs,
                   interrupted_jobs, status_history, current_time, phase, pool_call,
                   prev_call>>

NextLive == AddLiveJob \/ Tick \/ ScheduleNextBatch \/ UpdateJobStatus

\* The loop goes on from the call named by phase to the next
Goes(from, to) == phase = from /\ phase' = to

SpecLive ==
    /\ InitLive
    /\ [][NextLive]_vars
    /\ WF_phase(Goes("schedule", "update"))
    /\ WF_phase(Goes("update", "tick"))
    /\ WF_vars(Tick)

-----------------------------------------------------------------------------
(* Workloads on a pool of 40 units: the driver submits the jobs of one     *)
(* workload in order (ids 1, 2, ..., no dependencies) while its loop runs. *)

ScenarioUnits == 40
MaxWorkload == 3

ScenarioPool == [d \in DimSet |-> ScenarioUnits]

Request(cpu, disk) == [cpu |-> cpu, memory |-> 1, gpu |-> 0, disk |-> disk]
Waiting(priority, cpu, disk) ==
    [priority |-> priority, shape |-> <<Request(cpu, disk)>>, status |-> "waiting",
     error_rate |-> 50]

\* A job built without generate_workload: its two instances keep the status
\* of Instance.__init__
Pending(priority, cpu) ==
    [priority |-> priority, shape |-> <<Request(cpu, 1), Request(cpu, 1)>>,
     status |-> "pending", error_rate |-> 50]

Workloads ==
    {<<Waiting(5, 15, 1), Waiting(4, 15, 1), Waiting(1, 15, 1)>>,
     <<Waiting(5, 15, 1), Waiting(4, 15, 1), Waiting(1, 30, 1)>>,
     <<Waiting(5, 30, 1), Waiting(1, 35, 1)>>,
     <<Waiting(3, 5, 35), Waiting(5, 30, 1), Waiting(1, 30, 1)>>,
     <<Pending(3, 5), Waiting(3, 10, 1)>>}

\* The kind a job was built from, but for the status
KindOf(job) ==
    [priority |-> job.priority,
     shape |-> [k \in 1..Len(job.instances) |-> job.instances[k].required],
     error_rate |-> job.instances[1].error_rate]

IsOfKind(job, kind) ==
    KindOf(job) = [priority |-> kind.priority, shape |-> kind.shape,
                   error_rate |-> kind.error_rate]

\* The kinds the driver may submit next: those that continue a workload
\* whose first jobs are the ones submitted so far
NextKinds ==
    {w[Len(all_jobs) + 1] :
        w \in {v \in Workloads :
                  /\ Len(v) > Len(all_jobs)
                  /\ \A n \in 1..Len(all_jobs) : IsOfKind(all_jobs[n], v[n])}}

InitScenario ==
    /\ total_resources = ScenarioPool
    /\ available_resources = total_resources
    /\ all_jobs = <<>>
    /\ job_queue = <<>>
    /\ running_jobs = <<>>
    /\ completed_jobs = {}
    /\ interrupted_jobs = {}
    /\ graph = EmptyGraph
    /\ status_history = <<>>
    /\ current_time = 0
    /\ add_calls = 0
    /\ phase = "schedule"
    /\ ret = NoCall
    /\ pool_call = NoPoolCall
    /\ prev_call = NoPoolCall

AddScenarioJob ==
    /\ Len(all_jobs) < MaxWorkload
    /\ \E kind \in NextKinds :
          AddJobOf(NewJob(Len(all_jobs) + 1, kind.priority, <<>>, kind.shape,
                          kind.status, kind.error_rate))
    /\ UNCHANGED <<total_resources, available_resources, running_jobs, completed_jobs,
                   interrupted_jobs, status_history, current_time, phase, pool_call,
                   prev_call>>

NextScenario == AddScenarioJob \/ Tick \/ ScheduleNextBatch \/ UpdateJobStatus

SpecScenario == InitScenario /\ [][NextScenario]_vars

-----------------------------------------------------------------------------
(* Task.update_status on its own: a task whose instances have any          *)
(* statuses is asked to derive its own.  The job of the model has one      *)
(* task, which holds all its instances.                                    *)

MaxInstances == 3

InstanceStatuses ==
    {"pending", "waiting", "running", "terminated", "failed", "interrupted", "preempting"}

\* A rule that looks for an interrupted instance before a running one
TaskStatusInterruptedFirst(statuses) ==
    LET some(status) == \E k \in 1..Len(statuses) : statuses[k] = status
    IN  IF some("failed") THEN "failed"
        ELSE IF \A k \in 1..Len(statuses) : statuses[k] = "terminated" THEN "terminated"
        ELSE IF some("interrupted") THEN "interrupted"
        ELSE IF some("running") THEN "running"
        ELSE "waiting"

\* Task.update_status, from the statuses of the task's instances
update_status(statuses) ==
    LET some(status) == \E k \in 1..Len(statuses) : statuses[k] = status
    IN  IF some("failed") THEN "failed"
        ELSE IF \A k \in 1..Len(statuses) : statuses[k] = "terminated" THEN "terminated"
        ELSE IF some("running") THEN "running"
        ELSE IF some("interrupted") THEN "interrupted"
        ELSE "waiting"

\* The tasks that can be asked: up to MaxInstances instances of any status
TaskInputs ==
    UNION {[1..n -> InstanceStatuses] : n \in 0..MaxInstances}

InitTask ==
    /\ total_resources = [d \in DimSet |-> PoolUnits]
    /\ available_resources = total_resources
    /\ \E statuses \in TaskInputs :
          all_jobs = <<[NewJob(1, 1, <<>>, [k \in 1..Len(statuses) |-> RSmall],
                               "waiting", 50)
                        EXCEPT !.instances =
                            [k \in 1..Len(statuses) |-> [@[k] EXCEPT !.status = statuses[k]]]]>>
    /\ job_queue = <<>>
    /\ running_jobs = <<>>
    /\ completed_jobs = {}
    /\ interrupted_jobs = {}
    /\ graph = EmptyGraph
    /\ status_history = <<>>
    /\ current_time = 0
    /\ add_calls = 0
    /\ phase = "update_status"
    /\ ret = NoCall
    /\ pool_call = NoPoolCall
    /\ prev_call = NoPoolCall

UpdateTask ==
    /\ phase = "update_status"
    /\ phase' = "done"
    /\ all_jobs' = [all_jobs EXCEPT ![1].task_status =
                        update_status([k \in 1..Len(all_jobs[1].instances) |->
                                       all_jobs[1].instances[k].status])]
    /\ UNCHANGED <<total_resources, available_resources, job_queue, running_jobs,
                   completed_jobs, interrupted_jobs, graph, status_history,
                   current_time, add_calls, ret, pool_call, prev_call>>

NextTask == UpdateTask

SpecTask == InitTask /\ [][NextTask]_vars

-----------------------------------------------------------------------------
(* The pending queue on its own: add_job and update_job_status put        *)
(* (priority, job) tuples, schedule_next_batch gets them.  The jobs are    *)
(* numbered in the order of their puts.                                    *)

MaxQueued == 4
QueuePriorities == {1, 2}

PutItem ==
    /\ add_calls < MaxQueued
    /\ \E p \in QueuePriorities :
          job_queue' = QueuePut(job_queue, [priority |-> p, job |-> add_calls + 1])
    /\ add_calls' = add_calls + 1
    /\ ret' = NoCall
    /\ UNCHANGED <<total_resources, available_resources, all_jobs, running_jobs,
                   completed_jobs, interrupted_jobs, graph, status_history,
                   current_time, phase, pool_call, prev_call>>

GetItem ==
    /\ job_queue # <<>>
    /\ LET got == QueueGet(job_queue)
       IN  /\ job_queue' = got.heap
           /\ ret' = [raised |-> "None", returned |-> <<got.item.job>>]
    /\ UNCHANGED <<total_resources, available_resources, all_jobs, running_jobs,
                   completed_jobs, interrupted_jobs, graph, status_history,
                   current_time, add_calls, phase, pool_call, prev_call>>

NextQueue == PutItem \/ GetItem

SpecQueue == Init /\ [][NextQueue]_vars

-----------------------------------------------------------------------------
(* add_job on its own: jobs that depend on other jobs, known or not, are   *)
(* submitted under any of a few ids.                                       *)

MaxIds == 3
MaxAdds == 3

GraphJobs ==
    {job \in {NewJob(job_id, 1, deps, <<RSmall>>, "waiting", 50) :
                 job_id \in 1..MaxIds, deps \in DepLists(1..MaxIds)} :
        \A i \in 1..Len(job.dependencies) : job.dependencies[i] # job.job_id}

AddGraphJob ==
    /\ add_calls < MaxAdds
    /\ \E job \in GraphJobs : AddJobOf(job)
    /\ UNCHANGED <<total_resources, available_resources, running_jobs, completed_jobs,
                   interrupted_jobs, status_history, current_time, phase, pool_call,
                   prev_call>>

NextGraph == AddGraphJob

SpecGraph == Init /\ [][NextGraph]_vars

-----------------------------------------------------------------------------
(* The resource pool on its own: a caller allocates and releases vectors   *)
(* directly.                                                               *)

\* The vectors of direct calls: one dimension, as {cpu: n}, or the four of a
\* job's total requirement (no job of the model asks for a gpu).
Requests ==
    [{"cpu"} -> 0..MaxRequest]
        \cup {v \in [DimSet -> {0, MaxRequest}] : v.gpu = 0}

\* prev_call remembers the call before the last one when it was an allocate
\* that succeeded.
SuccessfulAllocate(call) ==
    IF call.op = "allocate" /\ call.ret = "True" THEN call ELSE NoPoolCall

PoolAllocate ==
    /\ \E req \in Requests :
          LET r == allocate(available_resources, req)
          IN  /\ available_resources' = r.avail
              /\ pool_call' = [op |-> "allocate", req |-> req, ret |-> r.ret,
                               pre |-> available_resources]
    /\ prev_call' = SuccessfulAllocate(pool_call)
    /\ UNCHANGED <<total_resources, schedVars, phase, ret>>

\* release is unconditional; the model stops the pool growing without bound.
PoolRelease ==
    /\ \E res \in Requests :
          LET r == release(available_resources, res)
          IN  /\ \A d \in DOMAIN r.avail : r.avail[d] <= PoolUnits + MaxRequest
              /\ available_resources' = r.avail
              /\ pool_call' = [op |-> "release", req |-> res, ret |-> r.ret,
                               pre |-> available_resources]
    /\ prev_call' = SuccessfulAllocate(pool_call)
    /\ UNCHANGED <<total_resources, schedVars, phase, ret>>

NextPool == PoolAllocate \/ PoolRelease

SpecPool == Init /\ [][NextPool]_vars

-----------------------------------------------------------------------------
(* Properties of the resource pool (SpecPool).                             *)

\* C3: whenever allocate(v) returned true and the very next call is
\* release(v), the available vector is back, in every dimension, at its
\* value before the allocate.
C3_AllocateReleaseRestores ==
    (/\ pool_call.op = "release"
     /\ prev_call.op = "allocate"
     /\ prev_call.req = pool_call.req)
        => available_resources = prev_call.pre

\* A non-zero vector was allocated and released at once, from a pool that
\* had already been drawn on.
C3_Witness ==
    /\ pool_call.op = "release"
    /\ prev_call.op = "allocate"
    /\ prev_call.req = pool_call.req
    /\ \E d \in DOMAIN pool_call.req : pool_call.req[d] > 0
    /\ prev_call.pre # total_resources
    /\ available_resources = prev_call.pre

\* C4: on a pool that starts with available = total, no sequence of
\* allocate and release calls with non-negative vectors makes the available
\* capacity negative in any dimension.
C4_NeverNegative ==
    \A d \in DOMAIN available_resources : available_resources[d] >= 0

\* An allocate was refused because a dimension would have gone negative.
C4_Witness ==
    /\ pool_call.op = "allocate"
    /\ pool_call.ret = "False"
    /\ \E d \in DOMAIN pool_call.req :
          /\ d \in DOMAIN pool_call.pre
          /\ pool_call.pre[d] - pool_call.req[d] < 0

\* What the pool has of a dimension: nothing of one it does not know.
Capacity(avail, d) == IF d \in DOMAIN avail THEN avail[d] ELSE 0

Exceeds(avail, req) == \E d \in DOMAIN req : req[d] > Capacity(avail, d)

\* C5: allocate(request) returns false exactly when the request exceeds the
\* available capacity in at least one dimension, and then leaves the
\* available vector unchanged; otherwise it returns true and subtracts
\* exactly the request.
C5_AllocateIsTotal ==
    pool_call.op = "allocate" =>
        IF Exceeds(pool_call.pre, pool_call.req)
        THEN /\ pool_call.ret = "False"
             /\ available_resources = pool_call.pre
        ELSE /\ pool_call.ret = "True"
             /\ available_resources = Subtract(pool_call.pre, pool_call.req)

-----------------------------------------------------------------------------
(* Properties of the scheduler (Spec).                                     *)

\* The ids of the jobs in the pending queue, in heap order
QueueIds == [i \in 1..Len(job_queue) |-> all_jobs[job_queue[i].job].job_id]

TimesQueued(id) == Cardinality({i \in 1..Len(job_queue) : QueueIds[i] = id})

PlacesOf(id) ==
    TimesQueued(id)
    + (IF id \in RunningIds(running_jobs) THEN 1 ELSE 0)
    + (IF id \in completed_jobs THEN 1 ELSE 0)
    + (IF id \in interrupted_jobs THEN 1 ELSE 0)

Partitioned == \A id \in KnownIds(all_jobs) : PlacesOf(id) = 1

\* C1: after every schedule_next_batch or update_job_status call, every id
\* that was added is in exactly one of the pending queue, the running map,
\* the completed set and the interrupted set, and at most once in the queue.
C1_PartitionAfterCalls ==
    [][(ScheduleNextBatch \/ UpdateJobStatus) => Partitioned']_vars

\* The vectors the running map records, added up
RECURSIVE SumRecorded(_, _)
SumRecorded(running, i) ==
    IF i = 0 THEN ZeroVector
    ELSE [d \in DimSet |-> SumRecorded(running, i - 1)[d] + running[i].resources[d]]

Recorded(running) == SumRecorded(running, Len(running))

\* The jobs of the running map that the step takes out of it
Leaving == RunningHandles(running_jobs) \ RunningHandles(running_jobs')

\* C2: the vector allocated when a job is admitted to the running map is
\* released exactly once, in the update_job_status call in which the job
\* becomes terminal and leaves the map: every step changes the available
\* capacity by exactly the vectors the map gains and loses, and a job
\* leaves the map only with a terminal status.
C2_ReleasedExactlyOnce ==
    [][/\ \A d \in DOMAIN available_resources :
             available_resources'[d] + Recorded(running_jobs')[d]
                = available_resources[d] + Recorded(running_jobs)[d]
       /\ \A h \in Leaving : all_jobs'[h].status \in TerminalStatuses]_vars

\* The graph add_job is asked to build: the job's node and an edge from
\* each of its dependencies
WithJob(g, job) ==
    [nodes |-> g.nodes \cup {job.job_id},
     edges |-> g.edges \cup {<<job.dependencies[i], job.job_id>> :
                                i \in 1..Len(job.dependencies)}]

CreatesCycle(g, job) ==
    is_directed_acyclic_graph(g) /\ ~ is_directed_acyclic_graph(WithJob(g, job))

\* C6: add_job of a job whose insertion would create a cycle (a job that
\* depends on itself, a re-added id that depends on a descendant) fails with
\* DependencyError and leaves the graph's nodes and edges as they were.
C6_CycleRejectedAtomically ==
    [][\A job \in Submittable :
          (CreatesCycle(graph, job) /\ AddJobOf(job))
             => (ret'.raised = "DependencyError" /\ graph' = graph)]_vars

NamesUnknown(all, job) ==
    \E i \in 1..Len(job.dependencies) : job.dependencies[i] \notin KnownIds(all)

\* C7: add_job of a job that names a dependency that was never added fails
\* with DependencyError and leaves nothing of the job: no node, no edge, no
\* queue entry and no entry in the list of known jobs.
C7_UnknownDependencyRejected ==
    [][\A job \in Submittable :
          (NamesUnknown(all_jobs, job) /\ AddJobOf(job))
             => /\ ret'.raised = "DependencyError"
                /\ graph'.nodes \ graph.nodes = {}
                /\ graph'.edges = graph.edges
                /\ job_queue' = job_queue
                /\ all_jobs' = all_jobs]_vars

DependenciesIn(completed, job) ==
    \A i \in 1..Len(job.dependencies) : job.dependencies[i] \in completed

HeldBack(h) ==
    /\ h \notin QueuedHandles(job_queue)
    /\ h \notin RunningHandles(running_jobs)
    /\ ~ DependenciesIn(completed_jobs, all_jobs[h])

\* C9: when update_job_status moves a job J into the completed set, every
\* job with a direct edge from J that was held back for unmet dependencies
\* and now has them all completed is in the pending queue when the call
\* returns.
C9_SuccessorsEnqueued ==
    [][\A id \in completed_jobs' \ completed_jobs :
          \A h \in Handles(all_jobs) :
             (/\ <<id, all_jobs[h].job_id>> \in graph.edges
              /\ HeldBack(h)
              /\ DependenciesIn(completed_jobs', all_jobs[h]))
                => h \in QueuedHandles(job_queue')]_vars

\* C10: once an instance or a job is terminated, failed or interrupted, no
\* later call changes that status.
C10_TerminalStatusesStay ==
    [][\A h \in Handles(all_jobs) :
          /\ all_jobs[h].status \in TerminalStatuses
                => all_jobs'[h].status = all_jobs[h].status
          /\ \A k \in 1..Len(all_jobs[h].instances) :
                all_jobs[h].instances[k].status \in TerminalStatuses
                   => all_jobs'[h].instances[k].status
                         = all_jobs[h].instances[k].status]_vars

-----------------------------------------------------------------------------
(* Properties of preemption (Spec).                                        *)

\* A step of schedule_next_batch that meets the draws and readings orc
ScheduleStep(orc) ==
    /\ phase = "schedule"
    /\ phase' = "update"
    /\ ScheduleNextBatchOf(orc)

\* The jobs the step evicts: an instance goes from running to preempting
Evicted ==
    {h \in Handles(all_jobs) :
        \E k \in 1..Len(all_jobs[h].instances) :
           /\ all_jobs[h].instances[k].status = "running"
           /\ all_jobs'[h].instances[k].status = "preempting"}

\* C11: schedule_next_batch never evicts a running job whose progress
\* exceeds 0.8, with or without spot instances.
C11_NoEvictionPastEighty ==
    [][\A orc \in ScheduleOracles :
          ScheduleStep(orc)
             => \A h \in Evicted : ~ AlmostDone(all_jobs[h], WallOf(orc, h))]_vars

HasSpot(job) == \E k \in 1..Len(job.instances) : job.instances[k].is_spot

\* C12: schedule_next_batch evicts a running job J only on behalf of a
\* pending job of priority p that stays pending, with J.priority > p, and
\* with J.priority > p + 2 when J has no spot instance.
C12_EvictedOnlyBelowRequester ==
    [][(phase = "schedule" /\ phase' = "update")
          => \A h \in Evicted :
                \E i \in 1..Len(job_queue) :
                   /\ job_queue[i].job \in QueuedHandles(job_queue')
                   /\ all_jobs[h].priority > job_queue[i].priority
                   /\ \/ HasSpot(all_jobs[h])
                      \/ all_jobs[h].priority > job_queue[i].priority + 2]_vars

\* A running job without spot instances is being evicted for a pending job
\* more than two priority levels above it.
C12_Witness ==
    \E e \in 1..Len(running_jobs) :
       LET job == all_jobs[running_jobs[e].job]
       IN  /\ ~ HasSpot(job)
           /\ \E k \in 1..Len(job.instances) : job.instances[k].status = "preempting"
           /\ \E i \in 1..Len(job_queue) : job.priority > job_queue[i].priority + 2

\* The entries of the running map that are candidates for a request of
\* priority p, when the clock readings are those of orc
IsCandidate(e, p, orc) ==
    LET job == all_jobs[e.job]
    IN  /\ job.priority > p
        /\ \/ HasSpot(job)
           \/ /\ ~ AlmostDone(job, WallOf(orc, e.job))
              /\ job.priority > p + 2

CandidatesOf(p, orc) == SelectSeq(running_jobs, LAMBDA e : IsCandidate(e, p, orc))

Covers(vector, required) == \A d \in DOMAIN required : vector[d] >= required[d]

Covered(item, orc) ==
    Covers(Recorded(CandidatesOf(item.priority, orc)),
           get_total_resources(all_jobs[item.job]))

StatusesOf(job) == [k \in 1..Len(job.instances) |-> job.instances[k].status]

\* C13: when the candidates' vectors together do not cover the request of
\* any job that stays pending, schedule_next_batch changes the status of no
\* instance of a running job, and every pending job it did not admit is
\* back in the queue.
C13_NoPartialEviction ==
    [][\A orc \in ScheduleOracles :
          (/\ ScheduleStep(orc)
           /\ \A i \in 1..Len(job_queue) :
                 job_queue[i].job \in QueuedHandles(job_queue')
                    => ~ Covered(job_queue[i], orc))
             => /\ \A h \in RunningHandles(running_jobs) :
                      StatusesOf(all_jobs'[h]) = StatusesOf(all_jobs[h])
                /\ \A i \in 1..Len(job_queue) :
                      \/ job_queue[i].job \in QueuedHandles(job_queue')
                      \/ \E j \in 1..Len(ret'.returned) :
                            ret'.returned[j] = job_queue[i].job]_vars

\* After a call: a pending job does not fit, a running job is a candidate
\* for it but holds too little, and that job still runs.
C13_Witness ==
    /\ phase = "update"
    /\ \E i \in 1..Len(job_queue), e \in 1..Len(running_jobs) :
          LET job == all_jobs[running_jobs[e].job]
              required == get_total_resources(all_jobs[job_queue[i].job])
          IN  /\ job.priority > job_queue[i].priority
              /\ HasSpot(job)
              /\ Len(running_jobs) = 1
              /\ ~ Covers(available_resources, required)
              /\ ~ Covers(running_jobs[e].resources, required)
              /\ \A k \in 1..Len(job.instances) : job.instances[k].status = "running"

\* C16: in an update_job_status call, a preempting instance of a job of the
\* running map stays preempting while now < its preemption time, and
\* otherwise becomes interrupted, and then the call releases the job's
\* allocation, takes the job out of the running map and requeues it.
C16_InterruptedAfterGrace ==
    [][(phase = "update" /\ phase' = "tick")
          => \A e \in 1..Len(running_jobs) :
                LET h == running_jobs[e].job
                IN  \A k \in 1..Len(all_jobs[h].instances) :
                       all_jobs[h].instances[k].status = "preempting"
                          => IF current_time < all_jobs[h].instances[k].preemption_time
                             THEN all_jobs'[h].instances[k].status = "preempting"
                             ELSE /\ all_jobs'[h].instances[k].status = "interrupted"
                                  /\ running_jobs[e].job_id \notin RunningIds(running_jobs')
                                  /\ h \in QueuedHandles(job_queue')
                                  /\ \A d \in DOMAIN running_jobs[e].resources :
                                        available_resources'[d] >=
                                           available_resources[d]
                                              + running_jobs[e].resources[d]]_vars

-----------------------------------------------------------------------------
(* Properties of one schedule_next_batch call (Spec).                      *)

\* How often the queue holds job h
Queued(queue, h) == Cardinality({i \in 1..Len(queue) : queue[i].job = h})

\* The jobs the call returns as admitted
Admitted == {ret'.returned[j] : j \in 1..Len(ret'.returned)}

\* C17: after a schedule_next_batch call every job that was pending is in
\* the running map or once in the pending queue, and the queue holds what it
\* held before less the admitted jobs.
C17_TakenJobsKept ==
    [][(phase = "schedule" /\ phase' = "update")
          => \A h \in Handles(all_jobs) :
                /\ Queued(job_queue', h)
                      = Queued(job_queue, h) - (IF h \in Admitted THEN 1 ELSE 0)
                /\ Queued(job_queue, h) > 0
                      => \/ h \in RunningHandles(running_jobs')
                         \/ Queued(job_queue', h) = 1]_vars

\* The pending jobs whose processing raises: the pool lacks a dimension of
\* the request and holds enough of the dimensions before it
Raising ==
    {h \in QueuedHandles(job_queue) :
        /\ _check_zone_quotas(total_resources, get_total_resources(all_jobs[h]))
        /\ can_allocate(available_resources, get_total_resources(all_jobs[h]))
              = "KeyError"}

\* C18: when the processing of a pending job raises inside
\* schedule_next_batch, the call returns normally, that job is in the
\* pending queue afterwards, and every other pending job was admitted or
\* is in the queue.
C18_ErrorSkipsOneJob ==
    [][(phase = "schedule" /\ phase' = "update" /\ Raising # {})
          => /\ ret'.raised = "None"
             /\ \A h \in Raising : Queued(job_queue', h) = 1
             /\ \A h \in QueuedHandles(job_queue) \ Raising :
                   \/ h \in Admitted
                   \/ Queued(job_queue', h) = 1]_vars

\* After a call that returned normally: two jobs are pending whose
\* processing raised in it.
C18_Witness ==
    /\ phase = "update"
    /\ ret = NoCall
    /\ Len(job_queue) = 2
    /\ Cardinality(Raising) = 2

-----------------------------------------------------------------------------
(* Properties of workloads on the pool of 40 units (SpecScenario).         *)

CostOf(h, orc) == _calculate_preemption_cost(all_jobs[h], WallOf(orc, h), UsageOf(orc, h))

\* The sum of the allocations of a set of entries of the running map
RECURSIVE HeldBy(_)
HeldBy(entries) ==
    IF entries = {} THEN ZeroVector
    ELSE LET e == CHOOSE x \in entries : TRUE
         IN  [d \in DimSet |-> running_jobs[e].resources[d] + HeldBy(entries \ {e})[d]]

Runs(job) == \E k \in 1..Len(job.instances) : job.instances[k].status = "running"

\* pre is a shortest prefix, by ascending cost, of the candidates cand that
\* covers required
ShortestPrefix(pre, cand, required, orc) ==
    /\ Covers(HeldBy(pre), required)
    /\ \A e \in pre, c \in cand \ pre :
          CostOf(running_jobs[c].job, orc) >= CostOf(running_jobs[e].job, orc)
    /\ \E last \in pre :
          /\ \A e \in pre :
                CostOf(running_jobs[e].job, orc) <= CostOf(running_jobs[last].job, orc)
          /\ ~ Covers(HeldBy(pre \ {last}), required)

\* C14: when a call meets one pending job that does not fit and whose
\* candidates cover its request, the jobs it evicts, together with
\* candidates that were being evicted already, are a shortest prefix of the
\* candidates in ascending order of preemption cost that covers the request.
C14_ShortestPrefixEvicted ==
    [][\A orc \in ScheduleOracles :
          (/\ ScheduleStep(orc)
           /\ Len(job_queue) = 1
           /\ job_queue[1].job \in QueuedHandles(job_queue')
           /\ _check_zone_quotas(total_resources,
                                 get_total_resources(all_jobs[job_queue[1].job]))
           /\ Covered(job_queue[1], orc))
             => LET required == get_total_resources(all_jobs[job_queue[1].job])
                    cand == {e \in 1..Len(running_jobs) :
                                IsCandidate(running_jobs[e], job_queue[1].priority, orc)}
                    taken == {e \in cand : running_jobs[e].job \in Evicted}
                    idle == {e \in cand : ~ Runs(all_jobs[running_jobs[e].job])}
                IN  /\ Evicted \subseteq {running_jobs[e].job : e \in cand}
                    /\ \E earlier \in SUBSET idle :
                          ShortestPrefix(taken \cup earlier, cand, required, orc)]_vars

\* After a call at this time: of two running jobs less urgent than a
\* pending one, one was evicted by the call and the other still runs.
C14_Witness ==
    /\ phase = "update"
    /\ Len(job_queue) = 1
    /\ \E a, b \in 1..Len(running_jobs) :
          LET evicted == all_jobs[running_jobs[a].job]
              spared == all_jobs[running_jobs[b].job]
          IN  /\ a # b
              /\ evicted.priority > job_queue[1].priority
              /\ spared.priority > job_queue[1].priority
              /\ \A k \in 1..Len(evicted.instances) :
                    /\ evicted.instances[k].status = "preempting"
                    /\ evicted.instances[k].preemption_time = current_time + GracePeriod
              /\ \A k \in 1..Len(spared.instances) :
                    spared.instances[k].status = "running"

\* Scenario C before a call: R (priority 5, cpu 30) is the one running job,
\* a tenth of its run elapsed, and P (priority 1, cpu 35) the one pending job
ScenarioC(orc) ==
    /\ total_resources = ScenarioPool
    /\ Len(running_jobs) = 1
    /\ Len(job_queue) = 1
    /\ LET R == all_jobs[running_jobs[1].job]
           P == all_jobs[job_queue[1].job]
       IN  /\ R.priority = 5
           /\ running_jobs[1].resources.cpu = 30
           /\ \A k \in 1..Len(R.instances) : R.instances[k].status = "running"
           /\ WallOf(orc, running_jobs[1].job) = 10
           /\ P.priority = 1
           /\ get_total_resources(P).cpu = 35

\* C15: in Scenario C schedule_next_batch takes R as the one victim and
\* moves its running instances to preempting.
C15_ScenarioCEvictsR ==
    [][\A orc \in ScheduleOracles :
          (ScheduleStep(orc) /\ ScenarioC(orc))
             => /\ Evicted = {running_jobs[1].job}
                /\ \A k \in 1..Len(all_jobs[running_jobs[1].job].instances) :
                      all_jobs'[running_jobs[1].job].instances[k].status = "preempting"]_vars

\* The request of job h is more than 80% of the pool's total in a dimension
OverQuota(h) ==
    \E d \in DOMAIN total_resources :
       10 * get_total_resources(all_jobs[h])[d] > 8 * total_resources[d]

\* C19: schedule_next_batch does not admit a pending job whose request is
\* more than 80% of the pool's total in cpu, memory, gpu or disk: the job is
\* unchanged and back in the pending queue after the call.
C19_OverQuotaDeferred ==
    [][(phase = "schedule" /\ phase' = "update")
          => \A h \in QueuedHandles(job_queue) :
                OverQuota(h)
                   => /\ h \notin Admitted
                      /\ Queued(job_queue', h) = 1
                      /\ all_jobs'[h] = all_jobs[h]]_vars

-----------------------------------------------------------------------------
(* Properties of the pending queue (SpecQueue).                            *)

\* C20: the job taken from the pending queue has the least priority number
\* in it, and among the jobs of that priority it was enqueued first.
C20_TakenInEnqueueOrder ==
    [][Len(job_queue') < Len(job_queue)
          => \E t \in 1..Len(job_queue) :
                /\ job_queue[t].job = ret'.returned[1]
                /\ \A i \in 1..Len(job_queue) :
                      \/ job_queue[t].priority < job_queue[i].priority
                      \/ /\ job_queue[t].priority = job_queue[i].priority
                         /\ job_queue[t].job <= job_queue[i].job]_vars

\* The jobs the call puts in the running map
Placed == RunningHandles(running_jobs') \ RunningHandles(running_jobs)

\* The requirements of a set of jobs, added up
RECURSIVE TotalOf(_)
TotalOf(hs) ==
    IF hs = {} THEN ZeroVector
    ELSE LET h == CHOOSE x \in hs : TRUE
         IN  [d \in DimSet |->
                 get_total_resources(all_jobs[h])[d] + TotalOf(hs \ {h})[d]]

\* C28: the list schedule_next_batch returns holds exactly the jobs the call
\* put in the running map; the map records for each its total requirement,
\* the pool's available capacity fell by exactly these vectors, and every
\* instance of such a job that was waiting runs from now to a later
\* end_time.
C28_ReturnedJobsAdmitted ==
    [][(phase = "schedule" /\ phase' = "update")
          => /\ Admitted = Placed
             /\ \A e \in 1..Len(running_jobs') :
                   running_jobs'[e].job \in Admitted
                      => running_jobs'[e].resources
                            = get_total_resources(all_jobs[running_jobs'[e].job])
             /\ \A d \in DOMAIN available_resources :
                   available_resources'[d] = available_resources[d] - TotalOf(Admitted)[d]
             /\ \A h \in Admitted :
                   \A k \in 1..Len(all_jobs[h].instances) :
                      all_jobs[h].instances[k].status = "waiting"
                         => /\ all_jobs'[h].instances[k].status = "running"
                            /\ all_jobs'[h].instances[k].start_time = current_time
                            /\ all_jobs'[h].instances[k].end_time > current_time]_vars

-----------------------------------------------------------------------------
(* Properties of one update_job_status call (Spec).                        *)

UpdateStep == phase = "update" /\ phase' = "tick"

\* C21: Scenario D: a running instance of a job of the running map whose
\* error_rate, 0.97, is above 0.95 and whose end_time is later than now is
\* interrupted after the update_job_status call.
C21_HighErrorRateInterrupts ==
    [][UpdateStep
          => \A e \in 1..Len(running_jobs) :
                LET h == running_jobs[e].job
                IN  \A k \in 1..Len(all_jobs[h].instances) :
                       (/\ all_jobs[h].instances[k].status = "running"
                        /\ all_jobs[h].instances[k].error_rate = 97
                        /\ all_jobs[h].instances[k].end_time > current_time)
                          => all_jobs'[h].instances[k].status = "interrupted"]_vars

\* C23: after an update_job_status call, for every job that was in the
\* running map, the task's status is the aggregation of its instances'
\* statuses and the job's status is the aggregation of its task's status
\* (Job.update_status applies the rule of Task.update_status to the tasks).
C23_StatusesDerived ==
    [][UpdateStep
          => \A h \in RunningHandles(running_jobs) :
                /\ all_jobs'[h].task_status = update_status(StatusesOf(all_jobs'[h]))
                /\ all_jobs'[h].status = update_status(<<all_jobs'[h].task_status>>)]_vars

RECURSIVE SumCounts(_, _)
SumCounts(counts, keys) ==
    IF keys = {} THEN 0
    ELSE LET key == CHOOSE x \in keys : TRUE
         IN  counts[key] + SumCounts(counts, keys \ {key})

\* C24: in every state get_status_summary returns for each status the number
\* of added jobs that have it, and the counts add up to the number of added
\* jobs.
C24_SummaryCountsJobs ==
    LET counts == get_status_summary(all_jobs)
    IN  /\ \A status \in DOMAIN counts :
              counts[status]
                 = Cardinality({h \in Handles(all_jobs) : all_jobs[h].status = status})
        /\ SumCounts(counts, DOMAIN counts) = Len(all_jobs)

\* C25: every entry of the status-change log is a transition of the
\* verifier's table, so that verify_workload_execution counts no invalid
\* transition.
C25_LoggedTransitionsValid ==
    /\ \A n \in 1..Len(status_history) :
          /\ status_history[n].old_status \in DOMAIN valid_transitions
          /\ status_history[n].new_status
                \in valid_transitions[status_history[n].old_status]
    /\ invalid_transitions(status_history, Len(status_history)) = 0

\* C26: after any add_job calls, accepted or rejected, the dependency graph
\* has no self-loop and no edge from an id that was not added, and
\* verify_dependencies succeeds on it (it is acyclic).
C26_GraphStaysValid ==
    /\ \A e \in graph.edges : e[1] # e[2] /\ e[1] \in KnownIds(all_jobs)
    /\ verify_dependencies(graph) = "None"

C29_CheckpointBeforePreempting ==
    [][\A h \in Handles(all_jobs) :
          \A k \in 1..Len(all_jobs[h].instances) :
             (/\ all_jobs[h].instances[k].status = "running"
              /\ all_jobs[h].instances[k].is_spot
              /\ all_jobs'[h].instances[k].status = "preempting")
                => /\ all_jobs'[h].instances[k].last_checkpoint = current_time
                   /\ all_jobs'[h].instances[k].preemption_time
                         = current_time + GracePeriod]_vars

-----------------------------------------------------------------------------
(* Properties of Task.update_status (SpecTask).                            *)

StatusSet(job) == {job.instances[k].status : k \in 1..Len(job.instances)}

\* C22: after Task.update_status the task is failed if an instance is
\* failed; otherwise terminated if all instances are terminated; otherwise
\* running if an instance is running; otherwise interrupted if an instance
\* is interrupted; otherwise waiting.
C22_TaskStatusPrecedence ==
    phase = "done"
       => LET has == StatusSet(all_jobs[1])
              task == all_jobs[1].task_status
              allDone == has \subseteq {"terminated"}
          IN  /\ (task = "failed") <=> ("failed" \in has)
              /\ (task = "terminated") <=> ("failed" \notin has /\ allDone)
              /\ (task = "running")
                    <=> ("failed" \notin has /\ ~ allDone /\ "running" \in has)
              /\ (task = "interrupted")
                    <=> (/\ {"failed", "running"} \cap has = {}
                         /\ ~ allDone
                         /\ "interrupted" \in has)
              /\ (task = "waiting")
                    <=> (/\ {"failed", "running", "interrupted"} \cap has = {}
                         /\ ~ allDone)

\* A task with a running, an interrupted and a terminated instance was
\* asked and is running.
C22_Witness ==
    /\ phase = "done"
    /\ StatusSet(all_jobs[1]) = {"running", "interrupted", "terminated"}
    /\ all_jobs[1].task_status = "running"

-----------------------------------------------------------------------------
(* Properties of update_job_status on the workloads (SpecScenario).        *)

\* The instances of the jobs of the running map whose update raises: their
\* status is no key of job_status
Failing ==
    {hk \in RunningHandles(running_jobs) \X (1..MaxInstances) :
        /\ hk[2] <= Len(all_jobs[hk[1]].instances)
        /\ all_jobs[hk[1]].instances[hk[2]].status \notin StatusKeys}

\* C30: when the update of an instance raises inside update_job_status, the
\* call returns normally, that instance is failed, and the other instances
\* and the other running jobs are updated: a running instance whose
\* end_time has come has ended, a preempting one past its grace period is
\* interrupted, and every job's status is derived anew.
C30_InstanceErrorContained ==
    [][(UpdateStep /\ Failing # {})
          => /\ ret'.raised = "None"
             /\ \A hk \in Failing : all_jobs'[hk[1]].instances[hk[2]].status = "failed"
             /\ \A h \in RunningHandles(running_jobs) :
                   /\ all_jobs'[h].status = JobStatus(all_jobs'[h])
                   /\ \A k \in 1..Len(all_jobs[h].instances) :
                         LET old == all_jobs[h].instances[k]
                             new == all_jobs'[h].instances[k]
                         IN  /\ (old.status = "running" /\ old.end_time <= current_time)
                                  => new.status \in {"terminated", "failed"}
                             /\ (/\ old.status = "preempting"
                                 /\ old.preemption_time <= current_time)
                                  => new.status = "interrupted"]_vars

\* After a call that returned normally: the instances of one job failed
\* without ever having started, and a job admitted with it is running.
C30_Witness ==
    /\ phase = "tick"
    /\ ret.raised = "None"
    /\ \E h, g \in Handles(all_jobs) :
          /\ all_jobs[h].status = "failed"
          /\ \A k \in 1..Len(all_jobs[h].instances) :
                /\ all_jobs[h].instances[k].status = "failed"
                /\ all_jobs[h].instances[k].start_time = None
          /\ all_jobs[g].status = "running"
          /\ g \in RunningHandles(running_jobs)
          /\ \E n \in 1..Len(status_history) :
                /\ status_history[n].job_id = all_jobs[g].job_id
                /\ status_history[n].time = current_time

-----------------------------------------------------------------------------
(* Properties of the states between calls (Spec).                          *)

\* No two jobs that were accepted carry the same id
DistinctIds ==
    \A a, b \in Handles(all_jobs) : all_jobs[a].job_id = all_jobs[b].job_id => a = b

\* C31: in every state between calls, when the accepted jobs have distinct
\* ids, the available capacity is, in every dimension of the pool, the total
\* less the sum of the vectors the running map records; so it never exceeds
\* the total.
C31_AvailableIsTotalLessRecorded ==
    DistinctIds
       => \A d \in DOMAIN available_resources :
             /\ available_resources[d]
                   = total_resources[d] - Recorded(running_jobs)[d]
             /\ available_resources[d] <= total_resources[d]

\* A job has completed and its allocation was released, and another job
\* with another id holds an allocation.
C31_Witness ==
    /\ DistinctIds
    /\ completed_jobs # {}
    /\ Len(running_jobs) = 1
    /\ running_jobs[1].job_id \notin completed_jobs
    /\ available_resources = Subtract(total_resources, running_jobs[1].resources)
    /\ available_resources # total_resources

\* C32: in every state between calls, every instance that is running or
\* preempting belongs to a job of the running map (checked for accepted jobs
\* with distinct ids, where an entry of the map is never overwritten).
C32_ActiveInstancesHoldAllocation ==
    DistinctIds
       => \A h \in Handles(all_jobs) :
             \A k \in 1..Len(all_jobs[h].instances) :
                all_jobs[h].instances[k].status \in {"running", "preempting"}
                   => h \in RunningHandles(running_jobs)

\* C33: in every state between calls, when the accepted jobs have distinct
\* ids, no job id is both in the pending queue and in the running map.
C33_NeverPendingAndRunning ==
    DistinctIds
       => \A id \in KnownIds(all_jobs) :
             ~ (TimesQueued(id) > 0 /\ id \in RunningIds(running_jobs))

\* A job that was interrupted is back in the pending queue and out of the
\* running map, while a job with another id is in the map.
C33_Witness ==
    /\ DistinctIds
    /\ \E i \in 1..Len(job_queue) :
          /\ all_jobs[job_queue[i].job].status = "interrupted"
          /\ QueueIds[i] \in interrupted_jobs
          /\ QueueIds[i] \notin RunningIds(running_jobs)
    /\ running_jobs # <<>>

-----------------------------------------------------------------------------
(* Properties of eviction across calls (Spec).                             *)

Fits(avail, h) == can_allocate(avail, get_total_resources(all_jobs[h])) = "True"

\* C34: a schedule_next_batch call that evicts victims admits no job on the
\* strength of the eviction: the available capacity falls by the requests
\* of the admitted jobs and by nothing else, every admitted job fitted the
\* capacity the call found, and for every victim a more urgent pending job
\* that does not fit is back in the queue, not admitted.
C34_RequesterWaitsForGrace ==
    [][(phase = "schedule" /\ phase' = "update" /\ Evicted # {})
          => /\ \A d \in DOMAIN available_resources :
                   available_resources'[d]
                      = available_resources[d] - TotalOf(Admitted)[d]
             /\ \A a \in Admitted : Fits(available_resources, a)
             /\ \A v \in Evicted :
                   \E i \in 1..Len(job_queue) :
                      /\ job_queue[i].priority < all_jobs[v].priority
                      /\ job_queue[i].job \notin Admitted
                      /\ Queued(job_queue', job_queue[i].job) = 1
                      /\ all_jobs'[job_queue[i].job] = all_jobs[job_queue[i].job]
                      /\ ~ Fits(available_resources', job_queue[i].job)]_vars

\* After a call: the one running job was evicted in it, and the pending job
\* it was evicted for still waits, though it would fit the pool with the
\* victim's allocation.
C34_Witness ==
    /\ phase = "update"
    /\ Len(running_jobs) = 1
    /\ Len(job_queue) = 1
    /\ LET victim == all_jobs[running_jobs[1].job]
           requester == job_queue[1].job
       IN  /\ \A k \in 1..Len(victim.instances) :
                 /\ victim.instances[k].status = "preempting"
                 /\ victim.instances[k].preemption_time = current_time + GracePeriod
           /\ \A k \in 1..Len(all_jobs[requester].instances) :
                 all_jobs[requester].instances[k].status = "waiting"
           /\ ~ Fits(available_resources, requester)
           /\ Fits(total_resources, requester)
           /\ available_resources
                 = Subtract(total_resources, running_jobs[1].resources)

\* C35: an instance that is preempting and stays so keeps its
\* preemption_time: a schedule_next_batch call leaves it as it is, also when
\* its job is taken as a victim again, and so does an update_job_status call
\* before the deadline.
C35_GraceNeverExtended ==
    [][\A h \in Handles(all_jobs) :
          \A k \in 1..Len(all_jobs[h].instances) :
             LET old == all_jobs[h].instances[k]
                 new == all_jobs'[h].instances[k]
             IN  old.status = "preempting"
                    => /\ new.status = "preempting"
                             => new.preemption_time = old.preemption_time
                       /\ phase = "schedule" => new = old
                       /\ current_time < old.preemption_time => new = old]_vars

\* After a call one tick after the eviction: the pending job the victim was
\* evicted for is still more urgent and still does not fit, and the
\* victim's instance is preempting with the deadline of the first eviction.
C35_Witness ==
    /\ phase = "update"
    /\ \E e \in 1..Len(running_jobs), i \in 1..Len(job_queue) :
          LET victim == all_jobs[running_jobs[e].job]
          IN  /\ job_queue[i].priority + PriorityMargin < victim.priority
              /\ ~ Fits(available_resources, job_queue[i].job)
              /\ Covers(running_jobs[e].resources,
                        get_total_resources(all_jobs[job_queue[i].job]))
              /\ \A k \in 1..Len(victim.instances) :
                    /\ victim.instances[k].status = "preempting"
                    /\ victim.instances[k].preemption_time
                          = current_time - TickStep + GracePeriod

-----------------------------------------------------------------------------
(* Progress of the running jobs (SpecLive).  The clock of the model stops  *)
(* at Horizon: a job with an end_time or a deadline beyond it is left out.  *)

Horizon == MaxTicks * TickStep

BeyondHorizon(h) ==
    /\ h \in Handles(all_jobs)
    /\ \E k \in 1..Len(all_jobs[h].instances) :
          LET inst == all_jobs[h].instances[k]
          IN  \/ inst.status = "running" /\ inst.end_time > Horizon
              \/ inst.status = "preempting" /\ inst.preemption_time > Horizon

Left(h) == h \in Handles(all_jobs) /\ h \notin RunningHandles(running_jobs)

Ended(h) ==
    /\ Left(h)
    /\ \A k \in 1..Len(all_jobs[h].instances) :
          all_jobs[h].instances[k].status \in TerminalStatuses

\* Interrupted and put back in the pending queue: the job waits for its
\* next admission, after which its instances are visited again
Requeued(h) == h \in Handles(all_jobs) /\ h \in QueuedHandles(job_queue)

\* C36: while the clock advances, every job of the running map (of accepted
\* jobs with distinct ids) eventually is out of the map with each of its
\* instances terminated, failed or interrupted, unless it is pending again.
C36_RunningJobsEnd ==
    \A h \in 1..MaxJobs :
       (h \in RunningHandles(running_jobs))
          ~> (Ended(h) \/ Requeued(h) \/ BeyondHorizon(h) \/ ~ DistinctIds)

\* Every job of the running map eventually is out of the map
JobsLeave ==
    \A h \in 1..MaxJobs :
       (h \in RunningHandles(running_jobs))
          ~> (Left(h) \/ BeyondHorizon(h) \/ ~ DistinctIds)

-----------------------------------------------------------------------------
(* Properties of add_job (SpecGraph).                                      *)

\* The ids that only rejected add_job calls carried: nodes of the graph
\* that are the id of no accepted job
RejectedIds == graph.nodes \ {all_jobs[h].job_id : h \in Handles(all_jobs)}

\* C37: an add_job call that names as a dependency an id that only rejected
\* calls carried fails with DependencyError, also while that id is a node of
\* the graph, and the job is not accepted.
C37_RejectedIdNeverKnown ==
    [][\A job \in GraphJobs :
          (/\ AddJobOf(job)
           /\ \E i \in 1..Len(job.dependencies) : job.dependencies[i] \in RejectedIds)
             => /\ ret'.raised = "DependencyError"
                /\ all_jobs' = all_jobs
                /\ job_queue' = job_queue]_vars

\* Three calls under three ids were rejected one after the other: each id
\* is a node, none is known, and the last call could only name ids
\* rejected before it.
C37_Witness ==
    /\ add_calls = MaxAdds
    /\ graph.nodes = 1..MaxIds
    /\ graph.edges = {}
    /\ all_jobs = <<>>
    /\ ret.raised = "DependencyError"

-----------------------------------------------------------------------------
(* Properties of the status-change log (SpecScenario).                     *)

\* The entries the step appends for instance k of job h
AppendedFor(h, k) ==
    {n \in (Len(status_history) + 1)..Len(status_history') :
        status_history'[n].instance_id = <<h, k>>}

\* C38: the log replays the statuses: no step alters or removes an entry,
\* and a step appends for an instance exactly one entry, from its previous
\* to its next status, when it changes the instance's status, and none when
\* it does not.
C38_LogReplaysStatuses ==
    [][/\ Len(status_history') >= Len(status_history)
       /\ SubSeq(status_history', 1, Len(status_history)) = status_history
       /\ \A h \in Handles(all_jobs) :
             \A k \in 1..Len(all_jobs[h].instances) :
                LET old == all_jobs[h].instances[k].status
                    new == all_jobs'[h].instances[k].status
                IN  IF old # new
                    THEN /\ Cardinality(AppendedFor(h, k)) = 1
                         /\ \A n \in AppendedFor(h, k) :
                               /\ status_history'[n].old_status = old
                               /\ status_history'[n].new_status = new
                    ELSE AppendedFor(h, k) = {}]_vars

-----------------------------------------------------------------------------
(* The two derivations of a job's status (Spec).                           *)

\* Task.update_status on the job's task, then Job.update_status
BottomUp(job) == update_status(<<update_status(StatusesOf(job))>>)

\* C39: the status update_job_status assigns to a job of the running map is
\* the status Task.update_status followed by Job.update_status derives from
\* the same instance statuses (checked for the statuses both derivations
\* know, that is when no instance is preempting).
C39_DerivationsAgree ==
    [][UpdateStep
          => \A h \in RunningHandles(running_jobs) :
                "preempting" \notin StatusSet(all_jobs'[h])
                   => all_jobs'[h].status = BottomUp(all_jobs'[h])]_vars

-----------------------------------------------------------------------------
(* Properties of the driver's pool, which has no disk (Spec).              *)

NoDisk == "disk" \notin DOMAIN total_resources

\* The request of job h fits the pool in the dimensions the pool has
FitsKnown(h) ==
    \A d \in DOMAIN available_resources :
       available_resources[d] >= get_total_resources(all_jobs[h])[d]

\* C40: on a pool without disk no job is ever admitted and the available
\* capacity never changes; in a schedule_next_batch call the capacity check
\* raises for every pending job whose other dimensions fit, the call
\* returns normally with no job, and every pending job is back in the
\* queue.
C40_NoDiskNothingAdmitted ==
    [][NoDisk
          => /\ available_resources' = total_resources
             /\ running_jobs' = <<>>
             /\ (phase = "schedule" /\ phase' = "update")
                   => /\ ret' = NoCall
                      /\ \A h \in Handles(all_jobs) :
                            /\ Queued(job_queue', h) = Queued(job_queue, h)
                            /\ all_jobs'[h] = all_jobs[h]
                      /\ \A h \in QueuedHandles(job_queue) :
                            FitsKnown(h)
                               => can_allocate(available_resources,
                                               get_total_resources(all_jobs[h]))
                                     = "KeyError"]_vars

\* After the last call the clock of the model allows: two jobs that would
\* fit the pool but for the disk are pending, never started, and the pool
\* is untouched.
C40_Witness ==
    /\ NoDisk
    /\ phase = "update"
    /\ current_time = Horizon
    /\ Len(job_queue) = 2
    /\ \A i \in 1..Len(job_queue) :
          /\ FitsKnown(job_queue[i].job)
          /\ \A k \in 1..Len(all_jobs[job_queue[i].job].instances) :
                all_jobs[job_queue[i].job].instances[k].status = "waiting"
    /\ running_jobs = <<>>
    /\ status_history = <<>>
    /\ available_resources = total_resources

====
